---- MODULE Spec2Model ----
(***************************************************************************)
(* A model of the zhiqiao_C4 collection pipeline: the content model, the   *)
(* three collector variants, the CollectorManager run orchestrator, the    *)
(* DataStorage snapshot store and the snapshot merge of app.py.            *)
(*                                                                         *)
(* Python's Optional[T] is modelled as a set with at most one element:     *)
(* {} is None and {v} is the value v.  Python lists are sequences.         *)
(***************************************************************************)
EXTENDS Integers, Sequences, FiniteSets, TLC

\* ------------------------------------------------------------------ bounds
MaxEntries == 3       \* entries of a feed handed to one collect call
MaxCap == 3           \* largest max_items handed to one collect call
MaxAuthors == 2       \* authors of a configuration
MaxFiles == 3         \* collection_*.json snapshots in the store
MaxWrites == 3        \* writes into the storage directory
MaxTail == 3          \* characters of a name after its run of letters

\* ---------------------------------------------------------- small domains
Names == {"X", "Y"}
Days == {1, 2}
Seconds == {1, 2}     \* the seconds of a day in which the store is written
Today == CHOOSE d \in Days : \A e \in Days : e <= d
None == {}
Some(v) == {v}
TheValue(opt) == CHOOSE v \in opt : TRUE

\* Python's sum() over a list of numbers
RECURSIVE SeqSum(_)
SeqSum(s) == IF s = <<>> THEN 0 ELSE Head(s) + SeqSum(Tail(s))

\* Python's s[:n]
Prefix(s, n) == SubSeq(s, 1, IF n < Len(s) THEN n ELSE Len(s))

\* ------------------------------------------------------------ config_manager
\* The members of the enum, by name, and the display string each has as
\* its value; CategoryType(s) looks a member up by value and raises
\* ValueError for any other string.
CategoryType == {"PODCAST", "VIDEO", "NEWS"}
CategoryValue(c) ==
    CASE c = "PODCAST" -> "Podcast" [] c = "VIDEO" -> "Video" [] c = "NEWS" -> "News"
CategoryValues == {CategoryValue(c) : c \in CategoryType}
CategoryOfValue(s) == CHOOSE c \in CategoryType : CategoryValue(c) = s

Author(name, category, enabled) ==
    [name |-> name, url |-> "https://" \o name, category |-> category, enabled |-> enabled]

\* ConfigManager.get_enabled_authors
get_enabled_authors(authors) == SelectSeq(authors, LAMBDA a : a.enabled)

\* --------------------------------------------------------------- content_model
\* str.strip() on the strings of the model
Strip(s) == IF s = " " THEN "" ELSE s

StartsWithHttp(u) == u \in {"http://e", "https://e"}

\* ContentItem.__post_init__: TRUE when construction raises ValueError
ItemInvalid(title, url, author_name) ==
    \/ title = "" \/ Strip(title) = ""
    \/ url = "" \/ ~StartsWithHttp(url)
    \/ author_name = "" \/ Strip(author_name) = ""

ContentItem(title, url, author, category, publish_date, content_id, now) ==
    [title |-> title, url |-> url, author_name |-> author.name,
     author_url |-> author.url, category |-> category,
     publish_date |-> publish_date, content_id |-> content_id,
     collected_at |-> now]

\* is_today taking an item with no publish_date for one of today
is_today_undated(item) ==
    IF item.publish_date = None THEN TRUE
    ELSE TheValue(item.publish_date) = Today

\* ContentItem.is_today
is_today(item) ==
    IF item.publish_date = None THEN FALSE
    ELSE TheValue(item.publish_date) = Today

\* CollectionResult.get_today_items
get_today_items(result) == SelectSeq(result.items, is_today)

\* ---------------------------------------------------------------- base_collector
\* BaseCollector._create_success_result
create_success_result(author, items, now) ==
    [author_name |-> author.name, author_url |-> author.url,
     category |-> author.category, success |-> TRUE, items |-> items,
     error_message |-> None, collected_at |-> now]

\* BaseCollector._create_error_result
create_error_result(author, error_message, now) ==
    [author_name |-> author.name, author_url |-> author.url,
     category |-> author.category, success |-> FALSE, items |-> <<>>,
     error_message |-> Some(error_message), collected_at |-> now]

\* ------------------------------------------------------------------- feeds
\* One entry of a parsed feed.  fault: mapping this entry raises an
\* exception of its own (a malformed field of the entry).

GoodEntries ==
    {[title |-> "T", link |-> "https://e", published |-> p, fault |-> FALSE] :
        p \in {None} \cup {Some(d) : d \in Days}}

BadEntries ==
    {[title |-> "", link |-> "https://e", published |-> None, fault |-> FALSE],
     [title |-> " ", link |-> "https://e", published |-> None, fault |-> FALSE],
     [title |-> "T", link |-> "", published |-> None, fault |-> FALSE],
     [title |-> "T", link |-> "ftp://e", published |-> None, fault |-> FALSE],
     [title |-> "T", link |-> "https://e", published |-> None, fault |-> TRUE]}

Entries == GoodEntries \cup BadEntries

SeqsUpTo(S, n) == UNION {[1..k -> S] : k \in 0..n}

\* What feedparser.parse does: it raises, or it returns a feed.
FeedsOver(E, n) ==
    {[raises |-> TRUE, entries |-> <<>>]}
        \cup {[raises |-> FALSE, entries |-> es] : es \in SeqsUpTo(E, n)}

Feeds == FeedsOver(Entries, MaxEntries)

\* The outcome of mapping one entry: an item, None, or an exception.
Mapped(item) == [raised |-> FALSE, item |-> <<item>>]
MappedNone == [raised |-> FALSE, item |-> <<>>]
MappedRaise == [raised |-> TRUE, item |-> <<>>]

\* ------------------------------------------------------------ youtube_collector
\* YouTubeCollector._parse_entry: every exception is caught and gives None.
YouTubeParseEntry(author, entry, id, now) ==
    LET title == Strip(entry.title)
        url == entry.link
    IN  IF entry.fault THEN MappedNone
        ELSE IF ItemInvalid(title, url, author.name) THEN MappedNone
        ELSE Mapped(ContentItem(title, url, author, "VIDEO", entry.published, id, now))

\* PodcastCollector._parse_entry: returns None without a title or a link;
\* an exception (ContentItem's ValueError included) escapes to collect.
PodcastParseEntry(author, entry, id, now) ==
    LET title == Strip(entry.title)
        link == Strip(entry.link)
    IN  IF title = "" THEN MappedNone
        ELSE IF link = "" THEN MappedNone
        ELSE IF entry.fault THEN MappedRaise
        ELSE IF ItemInvalid(title, link, author.name) THEN MappedRaise
        ELSE Mapped(ContentItem(title, link, author, "PODCAST", entry.published, id, now))

\* NewsCollector._parse_entry
NewsParseEntry(author, entry, id, now) ==
    LET title == Strip(entry.title)
        link == Strip(entry.link)
    IN  IF title = "" THEN MappedNone
        ELSE IF link = "" THEN MappedNone
        ELSE IF entry.fault THEN MappedRaise
        ELSE IF ItemInvalid(title, link, author.name) THEN MappedRaise
        ELSE Mapped(ContentItem(title, link, author, "NEWS", entry.published, id, now))

ParseEntry(author, entry, id, now) ==
    CASE author.category = "VIDEO" -> YouTubeParseEntry(author, entry, id, now)
      [] author.category = "PODCAST" -> PodcastParseEntry(author, entry, id, now)
      [] OTHER -> NewsParseEntry(author, entry, id, now)

\* The loop over feed.entries[:max_items] of the three collect methods:
\* an entry that maps to None or raises is skipped.  The position of an
\* entry in the feed stands for its identifier.
RECURSIVE MapEntries(_, _, _, _)
MapEntries(author, entries, from, now) ==
    IF entries = <<>> THEN <<>>
    ELSE LET kept(m) == IF m.raised THEN <<>> ELSE m.item
         IN  kept(ParseEntry(author, Head(entries), from, now))
                 \o MapEntries(author, Tail(entries), from + 1, now)

\* A collector: the author it was built for and the feed URL resolved at
\* construction (None when YouTubeCollector found no channel id).
Collector(author, rss_url) == [author |-> author, rss_url |-> rss_url]

\* How a call ends: it returns a value or an exception escapes it.
Returned(r) == [raised |-> FALSE, result |-> <<r>>, exc |-> ""]
Raised(e) == [raised |-> TRUE, result |-> <<>>, exc |-> e]

\* feedparser.parse(url)
FeedParse(feed) == IF feed.raises THEN Raised("feed error") ELSE Returned(feed)

\* The try block of YouTubeCollector.collect
YouTubeTry(c, feed, max_items, now) ==
    IF feed.raises THEN FeedParse(feed)
    ELSE IF feed.entries = <<>>
    THEN Returned(create_error_result(c.author, "no video content found", now))
    ELSE Returned(create_success_result(c.author,
            MapEntries(c.author, Prefix(feed.entries, max_items), 1, now), now))

\* YouTubeCollector.collect
YouTubeCollect(c, feed, max_items, now) ==
    IF c.rss_url = None
    THEN Returned(create_error_result(c.author, "no channel id, check the URL format", now))
    ELSE LET except(body) ==
                 IF body.raised
                 THEN Returned(create_error_result(c.author, "collect failed: " \o body.exc, now))
                 ELSE body
         IN  except(YouTubeTry(c, feed, max_items, now))

\* The try block of PodcastCollector.collect with no try around the
\* mapping of one entry: an entry that raises ends the loop
PodcastTryNoEntryCatch(c, feed, max_items, now) ==
    LET result(items) ==
            IF items = <<>>
            THEN Returned(create_error_result(c.author, "no valid podcast entry could be parsed", now))
            ELSE Returned(create_success_result(c.author, items, now))
        raises(entries) ==
            \E i \in 1..Len(entries) : ParseEntry(c.author, entries[i], i, now).raised
    IN  IF feed.raises THEN FeedParse(feed)
        ELSE IF feed.entries = <<>>
        THEN Returned(create_error_result(c.author, "no entries found in the RSS feed", now))
        ELSE IF raises(Prefix(feed.entries, max_items)) THEN Raised("entry error")
        ELSE result(MapEntries(c.author, Prefix(feed.entries, max_items), 1, now))

\* The try block of PodcastCollector.collect
PodcastTry(c, feed, max_items, now) ==
    LET result(items) ==
            IF items = <<>>
            THEN Returned(create_error_result(c.author, "no valid podcast entry could be parsed", now))
            ELSE Returned(create_success_result(c.author, items, now))
    IN  IF feed.raises THEN FeedParse(feed)
        ELSE IF feed.entries = <<>>
        THEN Returned(create_error_result(c.author, "no entries found in the RSS feed", now))
        ELSE result(MapEntries(c.author, Prefix(feed.entries, max_items), 1, now))

\* PodcastCollector.collect
PodcastCollect(c, feed, max_items, now) ==
    LET except(body) ==
            IF body.raised
            THEN Returned(create_error_result(c.author, "collect failed: " \o body.exc, now))
            ELSE body
    IN  except(PodcastTry(c, feed, max_items, now))

\* The try block of NewsCollector.collect
NewsTry(c, feed, max_items, now) ==
    LET result(items) ==
            IF items = <<>>
            THEN Returned(create_error_result(c.author, "no valid news entry could be parsed", now))
            ELSE Returned(create_success_result(c.author, items, now))
    IN  IF feed.raises THEN FeedParse(feed)
        ELSE IF feed.entries = <<>>
        THEN Returned(create_error_result(c.author, "no entries found in the feed", now))
        ELSE result(MapEntries(c.author, Prefix(feed.entries, max_items), 1, now))

\* NewsCollector.collect without its except clause
NewsCollectNoCatch(c, feed, max_items, now) == NewsTry(c, feed, max_items, now)

\* NewsCollector.collect
NewsCollect(c, feed, max_items, now) ==
    LET except(body) ==
            IF body.raised
            THEN Returned(create_error_result(c.author, "collect failed: " \o body.exc, now))
            ELSE body
    IN  except(NewsTry(c, feed, max_items, now))

\* collector.collect(max_items), dispatched on the variant
Collect(c, feed, max_items, now) ==
    CASE c.author.category = "VIDEO" -> YouTubeCollect(c, feed, max_items, now)
      [] c.author.category = "PODCAST" -> PodcastCollect(c, feed, max_items, now)
      [] OTHER -> NewsCollect(c, feed, max_items, now)

\* collect_today_only turning a day without items into a failure
CollectTodayOnlyFailEmpty(c, feed, max_items, now) ==
    LET filter(out) ==
            IF out.raised THEN out
            ELSE IF out.result[1].success
            THEN IF get_today_items(out.result[1]) = <<>>
                 THEN Returned(create_error_result(c.author, "no items today", now))
                 ELSE Returned([out.result[1] EXCEPT !.items = get_today_items(out.result[1])])
            ELSE out
    IN  filter(Collect(c, feed, max_items, now))

\* BaseCollector.collect_today_only
CollectTodayOnly(c, feed, max_items, now) ==
    LET filter(out) ==
            IF out.raised THEN out
            ELSE IF out.result[1].success
            THEN Returned([out.result[1] EXCEPT !.items = get_today_items(out.result[1])])
            ELSE out
    IN  filter(Collect(c, feed, max_items, now))

\* -------------------------------------------------------- youtube_collector
\* create_collector: the collector for the author's category, None for a
\* category outside CategoryType.  resolved: whether YouTubeCollector
\* found the channel id when it was constructed.
create_collector(author, resolved) ==
    CASE author.category = "VIDEO" ->
            Some(Collector(author, IF resolved THEN Some("feed") ELSE None))
      [] author.category \in {"PODCAST", "NEWS"} -> Some(Collector(author, Some("feed")))
      [] OTHER -> None

\* --------------------------------------------------------- collector_manager
\* A Python dict as the sequence of its (key, value) pairs in insertion
\* order: assigning to a present key replaces the value in place.
DictKeys(d) == {d[i].key : i \in 1..Len(d)}
DictSet(d, k, v) ==
    IF k \in DictKeys(d)
    THEN [i \in 1..Len(d) |-> IF d[i].key = k THEN [key |-> k, value |-> v] ELSE d[i]]
    ELSE Append(d, [key |-> k, value |-> v])

\* CollectorManager._initialize_collectors over the enabled authors;
\* resolved[i] is the channel-id resolution of the i-th of them.
RECURSIVE InitializeFrom(_, _, _, _)
InitializeFrom(d, enabled, resolved, i) ==
    IF i > Len(enabled) THEN d
    ELSE LET collector == create_collector(enabled[i], resolved[i])
         IN  IF collector # None
             THEN InitializeFrom(DictSet(d, enabled[i].name, TheValue(collector)),
                                 enabled, resolved, i + 1)
             ELSE InitializeFrom(d, enabled, resolved, i + 1)

initialize_collectors(authors, resolved) ==
    InitializeFrom(<<>>, get_enabled_authors(authors), resolved, 1)

\* What one collector meets in a run: the feed it fetches, or an exception
\* that escapes its collect (collect_all catches it as a last resort).
Behaviour(escapes, feed) == [escapes |-> escapes, feed |-> feed]

CallCollect(c, b, max_items, now) ==
    IF b.escapes THEN Raised("collector error") ELSE Collect(c, b.feed, max_items, now)

CallCollectTodayOnly(c, b, max_items, now) ==
    IF b.escapes THEN Raised("collector error") ELSE CollectTodayOnly(c, b.feed, max_items, now)

\* The except branch building the result without the message
ExceptionResultNoMessage(author_name, c, e, now) ==
    [author_name |-> author_name, author_url |-> c.author.url,
     category |-> c.author.category, success |-> FALSE, items |-> <<>>,
     error_message |-> None, collected_at |-> now]

\* The except branch of collect_all and collect_today_only
ExceptionResult(author_name, c, e, now) ==
    [author_name |-> author_name, author_url |-> c.author.url,
     category |-> c.author.category, success |-> FALSE, items |-> <<>>,
     error_message |-> Some(e), collected_at |-> now]

\* One turn of the loop of collect_all: the result appended for the
\* collector stored under author_name.
CollectOne(author_name, c, b, max_items, now) ==
    LET appended(out) ==
            IF out.raised THEN ExceptionResult(author_name, c, out.exc, now)
            ELSE out.result[1]
    IN  appended(CallCollect(c, b, max_items, now))

CollectOneToday(author_name, c, b, max_items, now) ==
    LET appended(out) ==
            IF out.raised THEN ExceptionResult(author_name, c, out.exc, now)
            ELSE out.result[1]
    IN  appended(CallCollectTodayOnly(c, b, max_items, now))

\* CollectorManager.collect_all: behaviours[i] is what the i-th collector
\* meets.  invoked lists the authors whose collector was called, in call order.
collect_all(collectors, behaviours, max_items, now) ==
    [results |-> [i \in 1..Len(collectors) |->
                    CollectOne(collectors[i].key, collectors[i].value,
                               behaviours[i], max_items, now)],
     invoked |-> [i \in 1..Len(collectors) |-> collectors[i].value.author]]

\* CollectorManager.collect_today_only
collect_today_only(collectors, behaviours, max_items, now) ==
    [results |-> [i \in 1..Len(collectors) |->
                    CollectOneToday(collectors[i].key, collectors[i].value,
                                    behaviours[i], max_items, now)],
     invoked |-> [i \in 1..Len(collectors) |-> collectors[i].value.author]]

\* CollectorManager.collect_by_author: a failed result with no category
\* for a name that has no collector, else that collector's collect, whose
\* exception nothing catches here.
NoCategory == "None"
DictGet(d, k) == d[CHOOSE i \in 1..Len(d) : d[i].key = k].value
collect_by_author(collectors, author_name, b, max_items, now) ==
    IF author_name \notin DictKeys(collectors)
    THEN Returned([author_name |-> author_name, author_url |-> "",
                   category |-> NoCategory, success |-> FALSE, items |-> <<>>,
                   error_message |-> Some("author not found: " \o author_name),
                   collected_at |-> now])
    ELSE CallCollect(DictGet(collectors, author_name), b, max_items, now)

\* --------------------------------------------------------------- serialization
\* The instants of the model: the days of publication and the clock of the
\* runs (run t collects at 2t - 1 and saves at 2t).
TimeValues == Days \cup (0..(2 * MaxFiles + 2))

\* datetime.isoformat() and datetime.fromisoformat() on the model's clock
IsoFormat(t) == ToString(t)
FromIsoFormat(str) == CHOOSE t \in TimeValues : ToString(t) = str

\* ContentItem.to_dict
ItemToDict(item) ==
    [title |-> item.title, url |-> item.url, author_name |-> item.author_name,
     author_url |-> item.author_url, category |-> CategoryValue(item.category),
     publish_date |-> IF item.publish_date = None THEN None
                      ELSE Some(IsoFormat(TheValue(item.publish_date))),
     content_id |-> item.content_id,
     collected_at |-> IsoFormat(item.collected_at)]

\* CollectionResult.to_dict
ResultToDict(result) ==
    [author_name |-> result.author_name, author_url |-> result.author_url,
     category |-> CategoryValue(result.category), success |-> result.success,
     items |-> [i \in 1..Len(result.items) |-> ItemToDict(result.items[i])],
     error_message |-> result.error_message,
     collected_at |-> IsoFormat(result.collected_at),
     total_items |-> Len(result.items)]

\* The dataclass constructor of ContentItem on the keyword arguments data,
\* with __post_init__: the three checks in their order, then a category
\* given as a str is looked up by value.
ContentItemInitNoUrlCheck(data) ==
    IF data.title = "" \/ Strip(data.title) = ""
    THEN Raised("title must not be empty")
    ELSE IF data.author_name = "" \/ Strip(data.author_name) = ""
    THEN Raised("author name must not be empty")
    ELSE IF data.category \in CategoryType THEN Returned(data)
    ELSE IF data.category \in CategoryValues
    THEN Returned([data EXCEPT !.category = CategoryOfValue(data.category)])
    ELSE Raised("'" \o data.category \o "' is not a valid CategoryType")

ContentItemInit(data) ==
    IF data.title = "" \/ Strip(data.title) = ""
    THEN Raised("title must not be empty")
    ELSE IF data.url = "" \/ ~StartsWithHttp(data.url)
    THEN Raised("invalid content URL: " \o data.url)
    ELSE IF data.author_name = "" \/ Strip(data.author_name) = ""
    THEN Raised("author name must not be empty")
    ELSE IF data.category \in CategoryType THEN Returned(data)
    ELSE IF data.category \in CategoryValues
    THEN Returned([data EXCEPT !.category = CategoryOfValue(data.category)])
    ELSE Raised("'" \o data.category \o "' is not a valid CategoryType")

\* ContentItem.from_dict: the category string to the enum, the ISO strings
\* to datetimes, then the constructor.
ItemFromDict(data) ==
    IF data.category \notin CategoryValues
    THEN Raised("'" \o data.category \o "' is not a valid CategoryType")
    ELSE ContentItemInit(
             [data EXCEPT !.category = CategoryOfValue(data.category),
                          !.publish_date = IF data.publish_date = None THEN None
                                           ELSE Some(FromIsoFormat(TheValue(data.publish_date))),
                          !.collected_at = FromIsoFormat(data.collected_at)])

\* The dataclass constructor of CollectionResult on the keyword arguments
\* data: it has the seven fields of the class and no other, converts
\* nothing, and CollectionResult has no from_dict.
ResultFields ==
    {"author_name", "author_url", "category", "success", "items", "error_message",
     "collected_at"}
CollectionResultInit(data) ==
    IF DOMAIN data \subseteq ResultFields
    THEN Returned(data)
    ELSE Raised("__init__() got an unexpected keyword argument")

\* ------------------------------------------------------------------ data_storage
\* The document of save_results counting every result as a success
SnapshotOfCountAll(rs, now) ==
    [collected_at |-> IsoFormat(now),
     total_authors |-> Len(rs),
     successful_authors |-> Len(rs),
     failed_authors |-> Len(SelectSeq(rs, LAMBDA r : ~r.success)),
     total_items |-> SeqSum([i \in 1..Len(rs) |->
                        IF rs[i].success THEN Len(rs[i].items) ELSE 0]),
     results |-> [i \in 1..Len(rs) |-> ResultToDict(rs[i])]]

\* The document DataStorage.save_results writes
SnapshotOf(rs, now) ==
    [collected_at |-> IsoFormat(now),
     total_authors |-> Len(rs),
     successful_authors |-> Len(SelectSeq(rs, LAMBDA r : r.success)),
     failed_authors |-> Len(SelectSeq(rs, LAMBDA r : ~r.success)),
     total_items |-> SeqSum([i \in 1..Len(rs) |->
                        IF rs[i].success THEN Len(rs[i].items) ELSE 0]),
     results |-> [i \in 1..Len(rs) |-> ResultToDict(rs[i])]]

\* DataStorage.save_results with the generated file name: the store with
\* the new file, newest first (list_saved_files orders by st_mtime, descending).
save_results(store, rs, stamp, now) ==
    <<[name |-> "collection_" \o ToString(stamp), doc |-> SnapshotOf(rs, now)]>> \o store

\* DataStorage.list_saved_files("collection_*.json")
list_saved_files(store) == store

\* A name as the sequence of its characters
IllegalChars == <<"/", "\\", ":", "*", "?", "\"", "<", ">", "|">>
NameLimit == 100

\* str.replace(char, '_')
Replace(s, char) == [i \in DOMAIN s |-> IF s[i] = char THEN "_" ELSE s[i]]

\* for char in illegal_chars: sanitized = sanitized.replace(char, '_')
RECURSIVE ReplaceEach(_, _)
ReplaceEach(s, chars) ==
    IF chars = <<>> THEN s ELSE ReplaceEach(Replace(s, Head(chars)), Tail(chars))

\* str.strip() on a sequence of characters
RECURSIVE LStrip(_)
LStrip(s) == IF s # <<>> /\ Head(s) = " " THEN LStrip(Tail(s)) ELSE s
RECURSIVE RStrip(_)
RStrip(s) ==
    IF s # <<>> /\ s[Len(s)] = " " THEN RStrip(SubSeq(s, 1, Len(s) - 1)) ELSE s
StripChars(s) == RStrip(LStrip(s))

\* sanitized[:100] when len(sanitized) > 100
Truncate(s) == IF Len(s) > NameLimit THEN SubSeq(s, 1, NameLimit) ELSE s

\* DataStorage._sanitize_filename
sanitize_filename(name) == Truncate(StripChars(ReplaceEach(name, IllegalChars)))

\* datetime.now().strftime("%Y%m%d_%H%M%S") and strftime("%Y%m%d")
Timestamp(now) == <<now.day, now.second>>
DateStamp(now) == <<now.day>>

\* The file names the save_* functions make up when none is given: the kind
\* of file, the sanitized author name of a per-author file, and the stamp.
CollectionName(now) == [kind |-> "collection", who |-> <<>>, stamp |-> Timestamp(now)]
TodayName(now) == [kind |-> "today", who |-> <<>>, stamp |-> DateStamp(now)]
SummaryName(now) == [kind |-> "summary", who |-> <<>>, stamp |-> Timestamp(now)]
AuthorFileName(author_name, now) ==
    [kind |-> "author", who |-> sanitize_filename(author_name), stamp |-> Timestamp(now)]

\* The storage directory as the set of its files, each with its name, its
\* st_mtime and whether the document in it is whole.
\* open(filepath, 'w') creates the file or truncates it: either way it is
\* the file of that name with the time of the write, and nothing in it yet.
OpenFile(dir, name, mtime) ==
    {f \in dir : f.name # name} \cup {[name |-> name, mtime |-> mtime, complete |-> FALSE]}

\* json.dump(data, f) and the end of the with block: the document is whole
DumpFile(dir, name) ==
    {IF f.name = name THEN [f EXCEPT !.complete = TRUE] ELSE f : f \in dir}

\* with open(filepath, 'w') as f: json.dump(data, f), from start to end
WriteFile(dir, name, mtime) == DumpFile(OpenFile(dir, name, mtime), name)

\* storage_dir.glob(pattern) for the patterns the program uses
Patterns == {"*.json", "collection_*.json"}
Glob(dir, pattern) ==
    IF pattern = "*.json" THEN dir ELSE {f \in dir : f.name.kind = "collection"}

\* sorted(..., key=st_mtime) without reverse=True
RECURSIVE SortedOldestFirst(_)
SortedOldestFirst(paths) ==
    IF paths = {} THEN <<>>
    ELSE LET first == CHOOSE f \in paths : \A g \in paths : g.mtime >= f.mtime
         IN  <<first>> \o SortedOldestFirst(paths \ {first})

\* sorted(..., key=lambda p: p.stat().st_mtime, reverse=True)
RECURSIVE SortedNewestFirst(_)
SortedNewestFirst(paths) ==
    IF paths = {} THEN <<>>
    ELSE LET first == CHOOSE f \in paths : \A g \in paths : g.mtime <= f.mtime
         IN  <<first>> \o SortedNewestFirst(paths \ {first})

\* DataStorage.list_saved_files(pattern) on the directory
ListDir(dir, pattern) == SortedNewestFirst(Glob(dir, pattern))

\* DataStorage.get_latest_file
get_latest_file(dir) ==
    IF ListDir(dir, "*.json") = <<>> THEN None ELSE Some(ListDir(dir, "*.json")[1])

\* DataStorage.load_results: None when the file does not exist or when
\* reading or parsing it raises; unreadable holds the files (by their place
\* in the listing) for which that is so.
load_results(store, i, unreadable) ==
    IF i \in unreadable THEN None ELSE Some(store[i].doc)

\* The loop of create_summary_report over the successful results: the
\* statistics of each category, a dict in the order the categories first occur.
NoStats == [authors |-> 0, items |-> 0, today_items |-> 0]
CountIn(stats, result) ==
    [authors |-> stats.authors + 1,
     items |-> stats.items + Len(result.items),
     today_items |-> stats.today_items + Len(get_today_items(result))]
RECURSIVE CategoryStats(_, _)
CategoryStats(successful, category_stats) ==
    IF successful = <<>> THEN category_stats
    ELSE LET counted(category, stats) ==
                 DictSet(stats, category,
                         CountIn(IF category \in DictKeys(stats)
                                 THEN DictGet(stats, category) ELSE NoStats,
                                 Head(successful)))
         IN  CategoryStats(Tail(successful),
                           counted(CategoryValue(Head(successful).category), category_stats))

\* create_summary_report with today_items of the summary counting all items
create_summary_report_all_today(results, now) ==
    LET report(successful, failed) ==
            [summary |->
                 [total_authors |-> Len(results),
                  successful_authors |-> Len(successful),
                  failed_authors |-> Len(failed),
                  total_items |-> SeqSum([i \in 1..Len(successful) |-> Len(successful[i].items)]),
                  today_items |-> SeqSum([i \in 1..Len(successful) |-> Len(successful[i].items)]),
                  collection_time |-> IsoFormat(now)],
             by_category |-> CategoryStats(successful, <<>>),
             successful_authors |-> [i \in 1..Len(successful) |-> successful[i].author_name],
             failed_authors |-> [i \in 1..Len(failed) |->
                                    [name |-> failed[i].author_name,
                                     error |-> failed[i].error_message]]]
    IN  report(SelectSeq(results, LAMBDA r : r.success),
               SelectSeq(results, LAMBDA r : ~r.success))

\* DataStorage.create_summary_report
create_summary_report(results, now) ==
    LET report(successful, failed) ==
            [summary |->
                 [total_authors |-> Len(results),
                  successful_authors |-> Len(successful),
                  failed_authors |-> Len(failed),
                  total_items |-> SeqSum([i \in 1..Len(successful) |-> Len(successful[i].items)]),
                  today_items |-> SeqSum([i \in 1..Len(successful) |->
                                             Len(get_today_items(successful[i]))]),
                  collection_time |-> IsoFormat(now)],
             by_category |-> CategoryStats(successful, <<>>),
             successful_authors |-> [i \in 1..Len(successful) |-> successful[i].author_name],
             failed_authors |-> [i \in 1..Len(failed) |->
                                    [name |-> failed[i].author_name,
                                     error |-> failed[i].error_message]]]
    IN  report(SelectSeq(results, LAMBDA r : r.success),
               SelectSeq(results, LAMBDA r : ~r.success))

\* ------------------------------------------------------------------------ app
FailedNames(data) ==
    {data.results[i].author_name : i \in {j \in 1..Len(data.results) : ~data.results[j].success}}

\* Backfill that stamps the result's own collected_at as history_collected_at
BackfillResultTime(data, result, old_collected_at) ==
    LET kept == SelectSeq(data.results, LAMBDA r : r.author_name # result.author_name)
        tagged == [from_history |-> TRUE, history_collected_at |-> result.collected_at] @@ result
    IN  [data EXCEPT !.results = Append(kept, tagged),
                     !.successful_authors = @ + 1,
                     !.failed_authors = @ - 1,
                     !.total_items = @ + Len(result.items)]

\* Backfill that counts one item for each historical result
BackfillCountsOne(data, result, old_collected_at) ==
    LET kept == SelectSeq(data.results, LAMBDA r : r.author_name # result.author_name)
        tagged == [from_history |-> TRUE, history_collected_at |-> old_collected_at] @@ result
    IN  [data EXCEPT !.results = Append(kept, tagged),
                     !.successful_authors = @ + 1,
                     !.failed_authors = @ - 1,
                     !.total_items = @ + 1]

\* Backfill that leaves the failed entry in the list
BackfillKeepsFailed(data, result, old_collected_at) ==
    LET tagged == [from_history |-> TRUE, history_collected_at |-> old_collected_at] @@ result
    IN  [data EXCEPT !.results = Append(data.results, tagged),
                     !.successful_authors = @ + 1,
                     !.failed_authors = @ - 1,
                     !.total_items = @ + Len(result.items)]

\* Backfill that puts the historical success in the place of the failed entry
BackfillInPlace(data, result, old_collected_at) ==
    LET tagged == [from_history |-> TRUE, history_collected_at |-> old_collected_at] @@ result
    IN  [data EXCEPT !.results = [k \in 1..Len(data.results) |->
                                     IF data.results[k].author_name = result.author_name
                                     THEN tagged ELSE data.results[k]],
                     !.successful_authors = @ + 1,
                     !.failed_authors = @ - 1,
                     !.total_items = @ + Len(result.items)]

\* app.py lines 64-82: the historical success replaces the failed entry
Backfill(data, result, old_collected_at) ==
    LET kept == SelectSeq(data.results, LAMBDA r : r.author_name # result.author_name)
        tagged == [from_history |-> TRUE, history_collected_at |-> old_collected_at] @@ result
    IN  [data EXCEPT !.results = Append(kept, tagged),
                     !.successful_authors = @ + 1,
                     !.failed_authors = @ - 1,
                     !.total_items = @ + Len(result.items)]

\* Variants of the inner loop.  Each is the loop with one condition or one
\* update left out; the loop itself is ScanResults below.
\* ... without the test of result.get('success')
RECURSIVE ScanResultsAnyResult(_, _, _)
ScanResultsAnyResult(m, old_results, old_collected_at) ==
    IF old_results = <<>> THEN m
    ELSE LET result == Head(old_results)
         IN  IF result.author_name \in m.failed
             THEN ScanResultsAnyResult(
                      [m EXCEPT !.data = Backfill(@, result, old_collected_at),
                                !.failed = @ \ {result.author_name}],
                      Tail(old_results), old_collected_at)
             ELSE ScanResultsAnyResult(m, Tail(old_results), old_collected_at)

\* ... without the test of author_name in failed_authors
RECURSIVE ScanResultsAnyAuthor(_, _, _)
ScanResultsAnyAuthor(m, old_results, old_collected_at) ==
    IF old_results = <<>> THEN m
    ELSE LET result == Head(old_results)
         IN  IF result.success
             THEN ScanResultsAnyAuthor(
                      [m EXCEPT !.data = Backfill(@, result, old_collected_at),
                                !.failed = @ \ {result.author_name}],
                      Tail(old_results), old_collected_at)
             ELSE ScanResultsAnyAuthor(m, Tail(old_results), old_collected_at)

\* ... without failed_authors.remove(author_name)
RECURSIVE ScanResultsKeepPending(_, _, _)
ScanResultsKeepPending(m, old_results, old_collected_at) ==
    IF old_results = <<>> THEN m
    ELSE LET result == Head(old_results)
         IN  IF result.author_name \in m.failed /\ result.success
             THEN ScanResultsKeepPending(
                      [m EXCEPT !.data = Backfill(@, result, old_collected_at)],
                      Tail(old_results), old_collected_at)
             ELSE ScanResultsKeepPending(m, Tail(old_results), old_collected_at)

\* The inner loop over old_data['results'] (app.py lines 61-82).  A merge
\* in progress is [data, failed, loaded]: latest_data, failed_authors and
\* the files load_results was called for.
RECURSIVE ScanResults(_, _, _)
ScanResults(m, old_results, old_collected_at) ==
    IF old_results = <<>> THEN m
    ELSE LET result == Head(old_results)
         IN  IF result.author_name \in m.failed /\ result.success
             THEN ScanResults([m EXCEPT !.data = Backfill(@, result, old_collected_at),
                                        !.failed = @ \ {result.author_name}],
                              Tail(old_results), old_collected_at)
             ELSE ScanResults(m, Tail(old_results), old_collected_at)

\* The loop over the older files, ending at the first file that does not load
RECURSIVE ScanFilesStopAtUnreadable(_, _, _, _)
ScanFilesStopAtUnreadable(m, store, i, unreadable) ==
    IF i > Len(store) THEN m
    ELSE IF m.failed = {} THEN m
    ELSE LET old_data == load_results(store, i, unreadable)
             seen == [m EXCEPT !.loaded = Append(@, i)]
         IN  IF old_data = None THEN seen
             ELSE ScanFilesStopAtUnreadable(
                      ScanResults(seen, TheValue(old_data).results,
                                  TheValue(old_data).collected_at),
                      store, i + 1, unreadable)

\* The loop over the older files without the break on an empty failed_authors
RECURSIVE ScanFilesNoBreak(_, _, _, _)
ScanFilesNoBreak(m, store, i, unreadable) ==
    IF i > Len(store) THEN m
    ELSE LET old_data == load_results(store, i, unreadable)
             seen == [m EXCEPT !.loaded = Append(@, i)]
         IN  IF old_data = None THEN ScanFilesNoBreak(seen, store, i + 1, unreadable)
             ELSE ScanFilesNoBreak(ScanResults(seen, TheValue(old_data).results,
                                               TheValue(old_data).collected_at),
                                   store, i + 1, unreadable)

\* The loop over collection_files[1:] (app.py lines 52-58)
RECURSIVE ScanFiles(_, _, _, _)
ScanFiles(m, store, i, unreadable) ==
    IF i > Len(store) THEN m
    ELSE IF m.failed = {} THEN m
    ELSE LET old_data == load_results(store, i, unreadable)
             seen == [m EXCEPT !.loaded = Append(@, i)]
         IN  IF old_data = None THEN ScanFiles(seen, store, i + 1, unreadable)
             ELSE ScanFiles(ScanResults(seen, TheValue(old_data).results,
                                        TheValue(old_data).collected_at),
                            store, i + 1, unreadable)

\* load_latest_data that falls back on the next file when the newest does not load
load_latest_data_fallback(store, unreadable) ==
    LET collection_files == list_saved_files(store)
        latest_data == load_results(store, 1, unreadable)
    IN  IF collection_files = <<>> THEN [view |-> None, loaded |-> <<>>]
        ELSE IF latest_data = None
             THEN IF Len(store) >= 2
                  THEN [view |-> load_results(store, 2, unreadable), loaded |-> <<1, 2>>]
                  ELSE [view |-> None, loaded |-> <<1>>]
        ELSE LET start == [data |-> TheValue(latest_data),
                           failed |-> FailedNames(TheValue(latest_data)),
                           loaded |-> <<1>>]
                 m == IF start.failed # {} THEN ScanFiles(start, store, 2, unreadable)
                      ELSE start
             IN  [view |-> Some(m.data), loaded |-> m.loaded]

\* load_latest_data: the merged view (None for no data) and the files it loaded
load_latest_data(store, unreadable) ==
    LET collection_files == list_saved_files(store)
        latest_data == load_results(store, 1, unreadable)
    IN  IF collection_files = <<>> THEN [view |-> None, loaded |-> <<>>]
        ELSE IF latest_data = None THEN [view |-> None, loaded |-> <<1>>]
        ELSE LET start == [data |-> TheValue(latest_data),
                           failed |-> FailedNames(TheValue(latest_data)),
                           loaded |-> <<1>>]
                 m == IF start.failed # {} THEN ScanFiles(start, store, 2, unreadable)
                      ELSE start
             IN  [view |-> Some(m.data), loaded |-> m.loaded]

\* format_publish_date: the label for a publish date seen on day today
format_publish_date(date_str, today) ==
    IF date_str = None THEN "unknown time"
    ELSE LET days == today - FromIsoFormat(TheValue(date_str))
         IN  IF days = 0 THEN "hours ago"
             ELSE IF days = 1 THEN "yesterday"
             ELSE "days ago"

RECURSIVE Flatten(_)
Flatten(seqs) == IF seqs = <<>> THEN <<>> ELSE Head(seqs) \o Flatten(Tail(seqs))

\* The items of the successful results, each with its formatted_date
\* (app.py lines 174-179)
AllItems(data, today) ==
    Flatten([i \in 1..Len(data.results) |->
        IF data.results[i].success
        THEN [j \in 1..Len(data.results[i].items) |->
                [formatted_date |-> format_publish_date(
                     data.results[i].items[j].publish_date, today)]
                    @@ data.results[i].items[j]]
        ELSE <<>>])

\* list.sort(key=publish_date, reverse=True): a stable sort, newest first
RECURSIVE InsertDesc(_, _)
InsertDesc(sorted, item) ==
    IF sorted = <<>> THEN <<item>>
    ELSE IF FromIsoFormat(TheValue(Head(sorted).publish_date))
                >= FromIsoFormat(TheValue(item.publish_date))
         THEN <<Head(sorted)>> \o InsertDesc(Tail(sorted), item)
         ELSE <<item>> \o sorted

RECURSIVE SortDesc(_)
SortDesc(items) ==
    IF items = <<>> THEN <<>>
    ELSE InsertDesc(SortDesc(SubSeq(items, 1, Len(items) - 1)), items[Len(items)])

\* The key x.get('publish_date', '') is None for an undated item, and
\* comparing None with another key raises TypeError.
SortRaises(items) ==
    Len(items) >= 2 /\ \E i \in 1..Len(items) : items[i].publish_date = None

\* api_items without the test of "not data": data.get raises on None
api_items_unchecked(view, today) ==
    IF view = None THEN [status |-> 500, items |-> <<>>, total |-> 0]
    ELSE LET all_items == AllItems(TheValue(view), today)
         IN  IF SortRaises(all_items) THEN [status |-> 500, items |-> <<>>, total |-> 0]
             ELSE [status |-> 200, items |-> SortDesc(all_items), total |-> Len(all_items)]

\* api_items: the JSON answer, or the error a raised exception becomes
api_items(view, today) ==
    IF view = None THEN [status |-> 200, items |-> <<>>, total |-> 0]
    ELSE LET all_items == AllItems(TheValue(view), today)
         IN  IF SortRaises(all_items) THEN [status |-> 500, items |-> <<>>, total |-> 0]
             ELSE [status |-> 200, items |-> SortDesc(all_items), total |-> Len(all_items)]

\* ----------------------------------------------------------------- state
VARIABLES
    call,        \* one call: the operation and what it is given
    ret,         \* how that call ended
    authors,     \* ConfigManager.authors, the configured authors in order
    collectors,  \* CollectorManager.collectors
    behaviours,  \* what each collector met in the last run
    results,     \* the list the last run returned
    invoked,     \* the authors whose collector the last run called, in order
    pc,          \* where the collection program stands
    files,       \* the collection_*.json files of the store, newest first
    op,          \* the last operation on the store
    unreadable,  \* the files the last request could not load
    view,        \* what load_latest_data returned to the last request
    loaded,      \* the files the last request called load_results for
    response,    \* the answer of the last request
    dir,         \* the storage directory: its files with their st_mtime
    written,     \* the names written into the directory, in the order of the writes
    listed,      \* what the last listing of the directory returned
    clock        \* the wall clock: the day and the second of the day

collectVars == <<call, ret>>
runVars == <<authors, collectors, behaviours, results, invoked, pc>>
storeVars == <<files, op, unreadable, view, loaded, response, dir, written, listed, clock>>
vars == <<call, ret, authors, collectors, behaviours, results, invoked, pc,
          files, op, unreadable, view, loaded, response, dir, written, listed, clock>>

Idle == [op |-> "idle"]

\* Settings.max_items_per_author
DefaultMaxItems == 10

\* ---------------------------------------------------- one collector, one call
CollectorsOf(category) ==
    {Collector(Author(n, category, TRUE), r) :
        n \in Names, r \in IF category = "VIDEO" THEN {None, Some("feed")} ELSE {Some("feed")}}

CollectCalls(o) ==
    {[op |-> o, collector |-> c, feed |-> feed, max_items |-> max_items] :
        c \in UNION {CollectorsOf(k) : k \in CategoryType},
        feed \in Feeds, max_items \in 1..MaxCap}

\* The call's inputs are drawn by Init; the action runs the call.
DoCollect(category) ==
    /\ ret = Idle
    /\ call # Idle
    /\ call.op = "collect"
    /\ call.collector.author.category = category
    /\ ret' = Collect(call.collector, call.feed, call.max_items, 1)
    /\ UNCHANGED call
    /\ UNCHANGED runVars
    /\ UNCHANGED storeVars

VideoCollect == DoCollect("VIDEO")
PodcastCollectCall == DoCollect("PODCAST")
NewsCollectCall == DoCollect("NEWS")

\* collector.collect_today_only(max_items)
CollectTodayOnlyCall ==
    /\ ret = Idle
    /\ call # Idle
    /\ call.op = "collect_today_only"
    /\ ret' = CollectTodayOnly(call.collector, call.feed, call.max_items, 1)
    /\ UNCHANGED call
    /\ UNCHANGED runVars
    /\ UNCHANGED storeVars

RunIdle ==
    /\ authors = <<>> /\ collectors = <<>> /\ behaviours = <<>>
    /\ results = <<>> /\ invoked = <<>> /\ pc = "idle"

StoreIdle ==
    /\ files = <<>> /\ op = "start" /\ unreadable = {} /\ view = None
    /\ loaded = <<>> /\ response = Idle
    /\ dir = {} /\ written = <<>> /\ listed = Idle
    /\ clock = [day |-> 1, second |-> 1]

InitCollect ==
    /\ \E o \in {"collect", "collect_today_only"} : call \in CollectCalls(o)
    /\ ret = Idle /\ RunIdle /\ StoreIdle
NextCollect == VideoCollect \/ PodcastCollectCall \/ NewsCollectCall \/ CollectTodayOnlyCall
SpecCollect == InitCollect /\ [][NextCollect]_vars

\* ------------------------------------------------- content_model, one call
\* The items and results the calls are made on
SampleItems ==
    {ContentItem("T", u, Author(n, k, TRUE), k, p, 1, t) :
        u \in {"http://e", "https://e"}, n \in Names, k \in CategoryType,
        p \in {None} \cup {Some(d) : d \in Days}, t \in Days}

DatedItem(id, p) == ContentItem("T", "https://e", Author("X", "VIDEO", TRUE), "VIDEO", p, id, 1)
ItemLists ==
    UNION {{[i \in 1..k |-> DatedItem(i, ps[i])] :
                ps \in [1..k -> {None} \cup {Some(d) : d \in Days}]} : k \in 0..MaxEntries}

SampleResults ==
    {create_success_result(Author("X", "VIDEO", TRUE), items, 1) : items \in ItemLists}
        \cup {create_error_result(Author("X", "VIDEO", TRUE), "collect failed", 1)}

ItemArguments ==
    {[title |-> t, url |-> u, author_name |-> n, author_url |-> "https://X",
      category |-> k, publish_date |-> None, content_id |-> 1, collected_at |-> 1] :
        t \in {"", " ", "T"}, u \in {"", "ftp://e", "http://e", "https://e"},
        n \in {"", " ", "X"}, k \in CategoryType \cup CategoryValues \cup {"Blog"}}

\* The lists of results that are saved and reported on: results of three
\* authors, two of one category, with none, one or two items, or failed.
StoredAuthors ==
    {Author("X", "VIDEO", TRUE), Author("Y", "VIDEO", TRUE), Author("Y", "PODCAST", TRUE)}
ItemsOf(a, n) ==
    CASE n = 0 -> <<>>
      [] n = 1 -> <<ContentItem("T", "https://e", a, a.category, Some(Today), 1, 1)>>
      [] OTHER -> <<ContentItem("T", "https://e", a, a.category, None, 1, 1),
                    ContentItem("T", "https://e", a, a.category, Some(1), 2, 1)>>
StoredResults ==
    {create_success_result(a, ItemsOf(a, n), 1) : a \in StoredAuthors, n \in 0..2}
        \cup {create_error_result(a, "collect failed", 1) : a \in StoredAuthors}
ResultLists == UNION {[1..k -> StoredResults] : k \in 0..MaxAuthors}

\* The author names that are sanitized: a run of letters, none or about as
\* long as the limit, then up to MaxTail characters of any kind; and the
\* name "A/B:C".
NameChars == {"a", " ", "/", ":"}
Pad(n) == [i \in 1..n |-> "a"]
Tails == UNION {[1..k -> NameChars] : k \in 0..MaxTail}
SampleNames ==
    {Pad(n) \o t : n \in {0, NameLimit - 2, NameLimit - 1, NameLimit}, t \in Tails}
        \cup {<<"A", "/", "B", ":", "C">>, <<"\\", "*", "?", "\"", "<", ">", "|">>}

ContentCalls ==
    {[op |-> o, results |-> rs] :
        o \in {"save_results", "create_summary_report"}, rs \in ResultLists}
        \cup {[op |-> "get_today_items", result |-> r] : r \in SampleResults}
        \cup {[op |-> "ContentItem", data |-> d] : d \in ItemArguments}
        \cup {[op |-> "item_round_trip", item |-> x] : x \in SampleItems}
        \cup {[op |-> "result_round_trip", result |-> r] : r \in SampleResults}
        \cup {[op |-> "sanitize_filename", name |-> n] : n \in SampleNames}

ContentCall(o) ==
    /\ ret = Idle
    /\ call # Idle
    /\ call.op = o
    /\ UNCHANGED call
    /\ UNCHANGED runVars
    /\ UNCHANGED storeVars

\* result.get_today_items()
GetTodayItems ==
    /\ ContentCall("get_today_items")
    /\ ret' = Returned(get_today_items(call.result))

\* ContentItem(**data)
ConstructItem ==
    /\ ContentCall("ContentItem")
    /\ ret' = ContentItemInit(call.data)

\* ContentItem.from_dict(item.to_dict())
ItemRoundTrip ==
    /\ ContentCall("item_round_trip")
    /\ ret' = ItemFromDict(ItemToDict(call.item))

\* CollectionResult(**result.to_dict())
ResultRoundTrip ==
    /\ ContentCall("result_round_trip")
    /\ ret' = CollectionResultInit(ResultToDict(call.result))

\* storage.save_results(results): the document written
SaveResults ==
    /\ ContentCall("save_results")
    /\ ret' = Returned(save_results(<<>>, call.results, 1, 2)[1].doc)

\* storage.create_summary_report(results)
CreateSummaryReport ==
    /\ ContentCall("create_summary_report")
    /\ ret' = Returned(create_summary_report(call.results, 2))

\* storage._sanitize_filename(name)
SanitizeFilename ==
    /\ ContentCall("sanitize_filename")
    /\ ret' = Returned(sanitize_filename(call.name))

InitContent == call \in ContentCalls /\ ret = Idle /\ RunIdle /\ StoreIdle
NextContent ==
    \/ GetTodayItems \/ ConstructItem \/ ItemRoundTrip \/ ResultRoundTrip
    \/ SaveResults \/ CreateSummaryReport \/ SanitizeFilename
SpecContent == InitContent /\ [][NextContent]_vars

\* ------------------------------------------------------------- one run
\* The feeds the collectors of a run meet: no entries, one entry published
\* today, or an undated entry followed by one published earlier.
EntryToday == [title |-> "T", link |-> "https://e", published |-> Some(Today), fault |-> FALSE]
EntryUndated == [title |-> "T", link |-> "https://e", published |-> None, fault |-> FALSE]
EntryOld == [title |-> "T", link |-> "https://e", published |-> Some(1), fault |-> FALSE]
FeedOf(entries) == [raises |-> FALSE, entries |-> entries]
RunFeeds == {FeedOf(<<>>), FeedOf(<<EntryToday>>), FeedOf(<<EntryUndated, EntryOld>>)}

RunBehaviours ==
    {Behaviour(TRUE, FeedOf(<<>>)), Behaviour(FALSE, [raises |-> TRUE, entries |-> <<>>])}
        \cup {Behaviour(FALSE, f) : f \in RunFeeds}

AuthorPool == {Author(n, k, e) : n \in Names, k \in CategoryType, e \in BOOLEAN}

Configs == UNION {[1..k -> AuthorPool] : k \in 1..MaxAuthors}

\* CollectorManager.__init__ (collect_demo.py, step 2)
InitializeCollectors ==
    /\ pc = "config"
    /\ \E resolved \in [1..Len(get_enabled_authors(authors)) -> BOOLEAN] :
           collectors' = initialize_collectors(authors, resolved)
    /\ pc' = "ready"
    /\ UNCHANGED <<authors, behaviours, results, invoked>>
    /\ UNCHANGED collectVars
    /\ UNCHANGED storeVars

\* CollectorManager.collect_all (collect_demo.py, step 3)
CollectAll ==
    /\ pc = "ready"
    /\ \E bs \in [1..Len(collectors) -> RunBehaviours] :
           LET run == collect_all(collectors, bs, DefaultMaxItems, 1)
           IN  /\ behaviours' = bs
               /\ results' = run.results
               /\ invoked' = run.invoked
    /\ pc' = "collected"
    /\ UNCHANGED <<authors, collectors>>
    /\ UNCHANGED collectVars
    /\ UNCHANGED storeVars

\* CollectorManager.collect_today_only
CollectTodayOnlyAll ==
    /\ pc = "ready"
    /\ \E bs \in [1..Len(collectors) -> RunBehaviours] :
           LET run == collect_today_only(collectors, bs, DefaultMaxItems, 1)
           IN  /\ behaviours' = bs
               /\ results' = run.results
               /\ invoked' = run.invoked
    /\ pc' = "collected_today"
    /\ UNCHANGED <<authors, collectors>>
    /\ UNCHANGED collectVars
    /\ UNCHANGED storeVars

\* CollectorManager.collect_by_author, for a configured or an unknown name
CollectByAuthor ==
    /\ pc = "ready"
    /\ \E author_name \in Names \cup {"Z"}, b \in RunBehaviours :
           LET out == collect_by_author(collectors, author_name, b, DefaultMaxItems, 1)
           IN  /\ behaviours' = <<b>>
               /\ results' = out.result
               /\ invoked' = IF author_name \in DictKeys(collectors)
                             THEN <<DictGet(collectors, author_name).author>> ELSE <<>>
    /\ pc' = "collected_one"
    /\ UNCHANGED <<authors, collectors>>
    /\ UNCHANGED collectVars
    /\ UNCHANGED storeVars

InitRun ==
    /\ call = Idle /\ ret = Idle
    /\ authors \in Configs
    /\ collectors = <<>> /\ behaviours = <<>> /\ results = <<>> /\ invoked = <<>>
    /\ pc = "config"
    /\ StoreIdle
NextRun == InitializeCollectors \/ CollectAll \/ CollectTodayOnlyAll \/ CollectByAuthor
SpecRun == InitRun /\ [][NextRun]_vars

\* ------------------------------------------------- one run, call by call
\* feedparser.parse(url) is called with the URL alone: nothing bounds the
\* time it takes, and self.timeout is used by _fetch_url only.  A fetch
\* that hangs is a call that does not return.
HangingFeed == [raises |-> FALSE, entries |-> <<>>, hangs |-> TRUE]
FetchHangs(c, b) == ~b.escapes /\ c.rss_url # None /\ "hangs" \in DOMAIN b.feed

StepBehaviours == RunBehaviours \cup {Behaviour(FALSE, HangingFeed)}

\* collect_all up to its loop (collector_manager.py lines 49-55)
StartCollectAll ==
    /\ pc = "ready"
    /\ behaviours' \in [1..Len(collectors) -> StepBehaviours]
    /\ results' = <<>>
    /\ invoked' = <<>>
    /\ pc' = IF collectors = <<>> THEN "collected" ELSE "collecting"
    /\ UNCHANGED <<authors, collectors>>
    /\ UNCHANGED collectVars
    /\ UNCHANGED storeVars

\* One turn of the loop of collect_all, taken when the collector's call
\* comes back (lines 58-85); the loop ends after the last collector.
CollectNext ==
    /\ pc = "collecting"
    /\ LET turn(i) ==
               /\ ~FetchHangs(collectors[i].value, behaviours[i])
               /\ results' = Append(results,
                                    CollectOne(collectors[i].key, collectors[i].value,
                                               behaviours[i], DefaultMaxItems, 1))
               /\ invoked' = Append(invoked, collectors[i].value.author)
               /\ pc' = IF i = Len(collectors) THEN "collected" ELSE "collecting"
       IN  turn(Len(results) + 1)
    /\ UNCHANGED <<authors, collectors, behaviours>>
    /\ UNCHANGED collectVars
    /\ UNCHANGED storeVars

\* The program runs on: a turn of the loop that can be taken is taken.
NextRunSteps == InitializeCollectors \/ StartCollectAll \/ CollectNext
SpecRunSteps == InitRun /\ [][NextRunSteps]_vars /\ WF_vars(CollectNext)

\* ------------------------------------------------------- the snapshot store
\* The configurations of the runs that fill the store: a channel X and a
\* podcast Y, each enabled or not.
StoreConfigs ==
    {<<Author("X", "VIDEO", ex), Author("Y", "PODCAST", ey)>> : ex, ey \in BOOLEAN}

\* collect_demo.py main(): load the configuration, build the collectors,
\* collect_all, save_results.  Run t collects at 2t - 1 and saves at 2t.
Run ==
    /\ Len(files) < MaxFiles
    /\ \E cfg \in StoreConfigs :
         LET cs == initialize_collectors(cfg, [i \in 1..Len(cfg) |-> TRUE])
             t == Len(files) + 1
         IN  \E fs \in [1..Len(cs) -> RunFeeds] :
               LET run == collect_all(cs, [i \in 1..Len(cs) |-> Behaviour(FALSE, fs[i])],
                                      DefaultMaxItems, 2 * t - 1)
               IN  files' = save_results(files, run.results, t, 2 * t)
    /\ op' = "run"
    /\ unreadable' = {} /\ view' = None /\ loaded' = <<>> /\ response' = Idle
    /\ UNCHANGED <<dir, written, listed, clock>>
    /\ UNCHANGED collectVars
    /\ UNCHANGED runVars

\* GET /api/items: one request against the store as it stands; each file
\* may turn out missing or unparsable when the request loads it.
ApiItems ==
    /\ op \in {"start", "run"}
    /\ \E unread \in SUBSET (1..Len(files)) :
         LET r == load_latest_data(files, unread)
         IN  /\ unreadable' = unread
             /\ view' = r.view
             /\ loaded' = r.loaded
             /\ response' = api_items(r.view, Today)
    /\ op' = "api_items"
    /\ UNCHANGED <<files, dir, written, listed, clock>>
    /\ UNCHANGED collectVars
    /\ UNCHANGED runVars

Init == call = Idle /\ ret = Idle /\ RunIdle /\ StoreIdle
Next == Run \/ ApiItems
Spec == Init /\ [][Next]_vars

\* ---------------------------------------------------- the storage directory
\* One write into the directory: the file and the record of the write.
\* Each write is later than the ones before it.
WriteOne(store, name) ==
    [dir |-> WriteFile(store.dir, name, Len(store.written) + 1),
     written |-> Append(store.written, name)]

\* DataStorage.save_items_by_author: one file per successful result with items
RECURSIVE save_items_by_author(_, _, _)
save_items_by_author(store, rs, now) ==
    IF rs = <<>> THEN store
    ELSE IF Head(rs).success /\ Head(rs).items # <<>>
         THEN save_items_by_author(
                  WriteOne(store, AuthorFileName(Head(rs).author_name, now)), Tail(rs), now)
         ELSE save_items_by_author(store, Tail(rs), now)

\* The results saved per author: of authors whose names differ and
\* sanitize to the same string, and of another one
AuthorResults ==
    {[author_name |-> n, success |-> TRUE, items |-> <<"T">>] :
        n \in {<<"A", "/", "B">>, <<"A", ":", "B">>, <<"C">>}}
        \cup {[author_name |-> <<"C">>, success |-> s, items |-> <<>>] : s \in BOOLEAN}
AuthorResultLists ==
    {<<r>> : r \in AuthorResults} \cup {<<r, s>> : r, s \in AuthorResults}

Saved(store) ==
    /\ dir' = store.dir
    /\ written' = store.written
    /\ listed' = Idle
    /\ UNCHANGED <<files, op, unreadable, view, loaded, response, clock>>
    /\ UNCHANGED collectVars
    /\ UNCHANGED runVars

Store == [dir |-> dir, written |-> written]

\* storage.save_results(results) up to open(filepath, 'w'): the file is
\* there under its name, to be listed and read by a request
SaveResultsOpen ==
    /\ \A f \in dir : f.complete
    /\ Len(written) < MaxWrites
    /\ dir' = OpenFile(dir, CollectionName(clock), Len(written) + 1)
    /\ written' = Append(written, CollectionName(clock))
    /\ listed' = Idle
    /\ UNCHANGED <<files, op, unreadable, view, loaded, response, clock>>
    /\ UNCHANGED collectVars
    /\ UNCHANGED runVars

\* ... and from there to its return
SaveResultsDump ==
    /\ \E f \in dir :
           /\ ~f.complete
           /\ dir' = DumpFile(dir, f.name)
    /\ listed' = Idle
    /\ UNCHANGED <<files, op, unreadable, view, loaded, response, written, clock>>
    /\ UNCHANGED collectVars
    /\ UNCHANGED runVars

\* storage.save_today_items_only(results)
SaveTodayItemsOnly ==
    /\ \A f \in dir : f.complete
    /\ Len(written) < MaxWrites
    /\ Saved(WriteOne(Store, TodayName(clock)))

\* storage.save_summary_report(results)
SaveSummaryReport ==
    /\ \A f \in dir : f.complete
    /\ Len(written) < MaxWrites
    /\ Saved(WriteOne(Store, SummaryName(clock)))

\* storage.save_items_by_author(results)
SaveItemsByAuthor ==
    /\ \A f \in dir : f.complete
    /\ Len(written) < MaxWrites
    /\ \E rs \in AuthorResultLists :
           LET saved(store) ==
                   /\ store # Store
                   /\ Len(store.written) <= MaxWrites
                   /\ Saved(store)
           IN  saved(save_items_by_author(Store, rs, clock))

\* Time passes: the next second of the day, or the next day
Tick ==
    /\ \/ /\ clock.second + 1 \in Seconds
          /\ clock' = [clock EXCEPT !.second = @ + 1]
       \/ /\ clock.day < Today
          /\ clock' = [day |-> clock.day + 1, second |-> 1]
    /\ UNCHANGED <<dir, written, listed>>
    /\ UNCHANGED <<files, op, unreadable, view, loaded, response>>
    /\ UNCHANGED collectVars
    /\ UNCHANGED runVars

\* list_saved_files(pattern) and get_latest_file() on the directory as it stands
List ==
    /\ listed = Idle
    /\ \E pattern \in Patterns :
           listed' = [op |-> "list", pattern |-> pattern,
                      files |-> ListDir(dir, pattern),
                      latest |-> get_latest_file(dir)]
    /\ UNCHANGED <<dir, written, clock>>
    /\ UNCHANGED <<files, op, unreadable, view, loaded, response>>
    /\ UNCHANGED collectVars
    /\ UNCHANGED runVars

NextFiles ==
    \/ SaveResultsOpen \/ SaveResultsDump \/ SaveTodayItemsOnly \/ SaveSummaryReport \/ SaveItemsByAuthor
    \/ Tick \/ List
SpecFiles == Init /\ [][NextFiles]_vars

\* ===================================================== the merge, observed
\* The request has merged a readable baseline.
Merged == op = "api_items" /\ files # <<>> /\ 1 \notin unreadable
Baseline == files[1].doc
View == TheValue(view)

EntriesOf(data, a) == SelectSeq(data.results, LAMBDA r : r.author_name = a)
SuccessesOf(data, a) == SelectSeq(data.results, LAMBDA r : r.author_name = a /\ r.success)
IsTagged(r) == "from_history" \in DOMAIN r

\* The older readable snapshots that hold a success of author a
Sources(a) ==
    {i \in 2..Len(files) : i \notin unreadable /\ SuccessesOf(files[i].doc, a) # <<>>}
MostRecent(a) == CHOOSE i \in Sources(a) : \A j \in Sources(a) : i <= j
Backfillable == {a \in FailedNames(Baseline) : Sources(a) # {}}

\* The historical result of snapshot i for author a, as the merge tags it
TaggedFrom(i, a) ==
    [from_history |-> TRUE, history_collected_at |-> files[i].doc.collected_at]
        @@ SuccessesOf(files[i].doc, a)[1]

\* C1: an author that failed in the newest snapshot and succeeded in some
\* older readable snapshot has no failed result in the view; the view holds
\* one of its historical successes whole, with all its items, tagged
\* from_history and with the collected_at of the snapshot it comes from.
C1_MergeBackfill ==
    Merged =>
        /\ view # None
        /\ \A a \in Backfillable :
            /\ \A k \in 1..Len(View.results) :
                   View.results[k].author_name = a => View.results[k].success
            /\ \E i \in Sources(a) : \E k \in 1..Len(View.results) :
                   /\ View.results[k] = TaggedFrom(i, a)
                   /\ View.results[k].items = SuccessesOf(files[i].doc, a)[1].items
                   /\ View.results[k].from_history = TRUE
                   /\ View.results[k].history_collected_at = files[i].doc.collected_at

C1_Witness ==
    /\ Merged /\ view # None
    /\ \E a \in Backfillable : \E k \in 1..Len(View.results) :
           /\ View.results[k].author_name = a
           /\ IsTagged(View.results[k])
           /\ Len(View.results[k].items) = 2

\* C2: with k failed authors backfilled, successful_authors is the
\* baseline's plus k, failed_authors the baseline's minus k and never below
\* 0, total_items the baseline's plus the items of the k historical
\* results, and total_authors is the baseline's.
BackfilledItems ==
    LET names == Backfillable
        count(a) == Len(SuccessesOf(files[MostRecent(a)].doc, a)[1].items)
        Sum[S \in SUBSET names] ==
            IF S = {} THEN 0
            ELSE LET a == CHOOSE x \in S : TRUE IN count(a) + Sum[S \ {a}]
    IN  Sum[names]

C2_MergeCounters ==
    Merged =>
        /\ view # None
        /\ View.successful_authors = Baseline.successful_authors + Cardinality(Backfillable)
        /\ View.failed_authors = Baseline.failed_authors - Cardinality(Backfillable)
        /\ View.failed_authors >= 0
        /\ View.total_items = Baseline.total_items + BackfilledItems
        /\ View.total_authors = Baseline.total_authors

C2_Witness ==
    /\ Merged /\ view # None
    /\ Cardinality(Backfillable) = 2
    /\ BackfilledItems = 3
    /\ View.failed_authors = 0

\* C3: a failed author with no success in any older readable snapshot
\* stays in the view as the baseline's failed result, with its error
\* message, no items and no from_history tag; and when no author is
\* backfilled the view is the baseline, counters included.
C3_NoBackfillAvailable ==
    Merged =>
        /\ view # None
        /\ \A a \in FailedNames(Baseline) \ Backfillable :
            /\ EntriesOf(View, a) = EntriesOf(Baseline, a)
            /\ Len(EntriesOf(View, a)) = 1
            /\ ~EntriesOf(View, a)[1].success
            /\ EntriesOf(View, a)[1].error_message = EntriesOf(Baseline, a)[1].error_message
            /\ EntriesOf(View, a)[1].error_message # None
            /\ EntriesOf(View, a)[1].items = <<>>
            /\ ~IsTagged(EntriesOf(View, a)[1])
        /\ Backfillable = {} => View = Baseline

C3_Witness ==
    /\ Merged /\ view # None
    /\ Len(files) = 3
    /\ \E a \in FailedNames(Baseline) \ Backfillable :
           /\ \E i \in 2..Len(files) : EntriesOf(files[i].doc, a) # <<>>
           /\ ~EntriesOf(View, a)[1].success

\* C4: an author that succeeded in the newest snapshot is in the view with
\* exactly the baseline's result, untagged, whatever older snapshots hold.
C4_NewestWins ==
    Merged =>
        /\ view # None
        /\ \A j \in 1..Len(Baseline.results) :
               Baseline.results[j].success =>
                   /\ EntriesOf(View, Baseline.results[j].author_name) = <<Baseline.results[j]>>
                   /\ ~IsTagged(EntriesOf(View, Baseline.results[j].author_name)[1])

C4_Witness ==
    /\ Merged /\ view # None
    /\ \E j \in 1..Len(Baseline.results) :
           /\ Baseline.results[j].success
           /\ \E i \in 2..Len(files) :
                  /\ SuccessesOf(files[i].doc, Baseline.results[j].author_name) # <<>>
                  /\ i \notin unreadable
           /\ Backfillable # {}

\* C5: when several older snapshots hold a success of a failed author, the
\* view holds the one of the most recent of them, and no older one.
C5_MostRecentHistoricalWins ==
    Merged =>
        /\ view # None
        /\ \A a \in Backfillable :
               /\ EntriesOf(View, a) = <<TaggedFrom(MostRecent(a), a)>>
               /\ \A i \in Sources(a) \ {MostRecent(a)} :
                      EntriesOf(View, a)[1].history_collected_at
                          # files[i].doc.collected_at

C5_Witness ==
    /\ Merged /\ view # None
    /\ \E a \in Backfillable :
           /\ Cardinality(Sources(a)) = 2
           /\ EntriesOf(View, a)[1].history_collected_at
                  = files[MostRecent(a)].doc.collected_at

\* C6: an older file that is missing or unparsable is skipped: a failed
\* author whose most recent success lies in a readable snapshot older than
\* that file is backfilled from it, the scan having tried the file and
\* gone on past it, and the request gets its view.
C6_GracefulDegradation ==
    Merged =>
        /\ view # None
        /\ \A a \in Backfillable : \A i \in unreadable :
               i < MostRecent(a) =>
                   /\ Len(EntriesOf(View, a)) = 1
                   /\ EntriesOf(View, a)[1].success
                   /\ IsTagged(EntriesOf(View, a)[1])
                   /\ EntriesOf(View, a)[1].history_collected_at
                          = files[MostRecent(a)].doc.collected_at
                   /\ \E n \in 1..Len(loaded) : loaded[n] = i
                   /\ \E n \in 1..Len(loaded) : loaded[n] = MostRecent(a)

C6_Witness ==
    /\ Merged /\ view # None
    /\ unreadable = {2}
    /\ \E a \in FailedNames(Baseline) :
           /\ SuccessesOf(files[2].doc, a) # <<>>
           /\ Sources(a) = {3}
           /\ EntriesOf(View, a) = <<TaggedFrom(3, a)>>

\* C7: with no collection_*.json file in the store, load_latest_data
\* returns None and /api/items answers an empty item list with total 0.
C7_EmptyStore ==
    (op = "api_items" /\ files = <<>>) =>
        /\ view = None
        /\ loaded = <<>>
        /\ response = [status |-> 200, items |-> <<>>, total |-> 0]

C7_Witness == op = "api_items" /\ files = <<>> /\ response # Idle

\* ======================================================= the run, observed
Enabled == get_enabled_authors(authors)
RunDone == pc \in {"collected", "collected_today"}

\* What the i-th collector's own call gives in the run that was made
OwnResult(i) ==
    IF pc = "collected"
    THEN CollectOne(collectors[i].key, collectors[i].value, behaviours[i], DefaultMaxItems, 1)
    ELSE CollectOneToday(collectors[i].key, collectors[i].value, behaviours[i], DefaultMaxItems, 1)

\* C8: collect_all over N enabled authors returns N results, one per
\* author; an author whose collector fails or raises has one result with
\* success = FALSE, and every other result is what its collector returned.
C8_Isolation ==
    pc = "collected" =>
        /\ Len(results) = Len(Enabled)
        /\ \A i \in 1..Len(Enabled) :
               /\ i <= Len(results)
               /\ results[i].author_name = Enabled[i].name
               /\ results[i].author_url = Enabled[i].url
               /\ results[i].category = Enabled[i].category

\* The isolation that does hold: one result for each collector, a failed
\* one for a collector that raised, its own for every other.
IsolationPerCollector ==
    RunDone =>
        /\ Len(results) = Len(collectors)
        /\ \A i \in 1..Len(collectors) :
               /\ results[i].author_name = collectors[i].key
               /\ results[i] = OwnResult(i)
               /\ (behaviours[i].escapes \/ behaviours[i].feed.raises) =>
                      (~results[i].success /\ results[i].error_message # None)

\* C9: the results of collect_all and of collect_today_only are in the
\* configured order of the enabled authors, and each author's collector
\* is called exactly once in a run.
C9_RunOrder ==
    RunDone =>
        /\ [i \in 1..Len(results) |-> results[i].author_name]
               = [i \in 1..Len(Enabled) |-> Enabled[i].name]
        /\ invoked = Enabled

\* C15: every CollectionResult that collect_all, collect_today_only or
\* collect_by_author returns (each one what collect or collect_today_only
\* returned, or built by the manager) has no items when success = FALSE,
\* and has an error_message exactly when success = FALSE.
C15_ResultInvariant ==
    pc \in {"collected", "collected_today", "collected_one"} =>
        \A i \in 1..Len(results) :
            /\ ~results[i].success => results[i].items = <<>>
            /\ results[i].error_message # None <=> ~results[i].success

C15_Witness ==
    /\ pc = "collected"
    /\ Len(results) = 2
    /\ behaviours[1].escapes
    /\ ~results[1].success
    /\ results[1].error_message = Some("collector error")
    /\ results[2].success
    /\ results[2].items # <<>>

\* ================================================== one collect, observed
WholeFetchFails == call.feed.raises \/ call.collector.rss_url = None

\* C10: collect of every variant returns a CollectionResult for its
\* author and never raises; when the whole fetch fails (the feed cannot be
\* parsed, or no feed URL was resolved) the result has success = FALSE and
\* a non-empty error message.
C10_CollectNeverRaises ==
    ret # Idle =>
        /\ ~ret.raised
        /\ Len(ret.result) = 1
        /\ ret.result[1].author_name = call.collector.author.name
        /\ WholeFetchFails =>
               /\ ~ret.result[1].success
               /\ ret.result[1].items = <<>>
               /\ ret.result[1].error_message # None
               /\ TheValue(ret.result[1].error_message) # ""

C10_Witness ==
    /\ ret # Idle
    /\ call.feed.raises
    /\ call.collector.author.category = "NEWS"
    /\ ~ret.raised
    /\ ~ret.result[1].success

\* What the call was given and what it gave back
TheFeed == call.feed
Examined == Prefix(TheFeed.entries, call.max_items)
TheResult == ret.result[1]
CollectDone == ret # Idle /\ call.op = "collect"
FeedFetched == ~WholeFetchFails

\* The places, among the examined entries, of those that map to an item
MappablePlaces == {i \in 1..Len(Examined) : Examined[i] \in GoodEntries}

\* C11: when the feed has entries and none of the examined ones maps to
\* a ContentItem, collect of every variant returns success = FALSE, never
\* a successful result with no items.
C11_NoValidItems ==
    (CollectDone /\ FeedFetched /\ TheFeed.entries # <<>> /\ MappablePlaces = {}) =>
        /\ ~ret.raised
        /\ ~TheResult.success

\* The items of a successful result are the mappable examined entries, in
\* feed order: at most max_items of them.
ItemsInFeedOrder ==
    /\ Len(TheResult.items) <= call.max_items
    /\ Len(TheResult.items) = Cardinality(MappablePlaces)
    /\ \A k \in 1..Len(TheResult.items) :
           /\ TheResult.items[k].content_id \in MappablePlaces
           /\ TheResult.items[k].publish_date
                  = Examined[TheResult.items[k].content_id].published
           /\ \A j \in 1..(k - 1) :
                  TheResult.items[j].content_id < TheResult.items[k].content_id

\* C12, as stated: a successful collect returns at most max_items items in
\* feed order, and an unmappable entry is skipped without the call raising
\* or failing as long as another entry of the feed maps.
C12_ToleranceAnyEntry ==
    (CollectDone /\ FeedFetched) =>
        /\ ~ret.raised
        /\ TheResult.success => ItemsInFeedOrder
        /\ ((\E i \in 1..Len(TheFeed.entries) : TheFeed.entries[i] \in GoodEntries)
              /\ (\E i \in 1..Len(TheFeed.entries) : TheFeed.entries[i] \in BadEntries))
               => TheResult.success

\* C12, amended: ... as long as another of the first max_items entries maps.
C12_CapAndTolerance ==
    (CollectDone /\ FeedFetched) =>
        /\ ~ret.raised
        /\ TheResult.success => ItemsInFeedOrder
        /\ (MappablePlaces # {} /\ (\E i \in 1..Len(Examined) : Examined[i] \in BadEntries))
               => (TheResult.success /\ TheResult.items # <<>>)

C12_Witness ==
    /\ CollectDone /\ FeedFetched
    /\ call.collector.author.category = "PODCAST"
    /\ call.max_items = 2
    /\ Len(TheFeed.entries) = 3
    /\ TheFeed.entries[1].fault
    /\ MappablePlaces = {2}
    /\ TheResult.success
    /\ Len(TheResult.items) = 1

\* The collect that a collect_today_only call makes, and the items of its
\* result that were published on the current date
TodayDone == ret # Idle /\ call.op = "collect_today_only"
Underlying == Collect(call.collector, call.feed, call.max_items, 1)
PublishedToday(items) == SelectSeq(items, LAMBDA it : it.publish_date = Some(Today))

\* C13: when the underlying collect succeeds, collect_today_only returns a
\* successful result whose items are exactly the today-filtered items of
\* the collected result, possibly none; when collect fails, the failed
\* result comes back unchanged.
C13_CollectTodayOnly ==
    TodayDone =>
        /\ ~ret.raised
        /\ ~Underlying.raised
        /\ Underlying.result[1].success =>
               /\ TheResult.success
               /\ TheResult.error_message = None
               /\ TheResult.items = PublishedToday(Underlying.result[1].items)
               /\ TheResult = [Underlying.result[1] EXCEPT !.items = TheResult.items]
        /\ ~Underlying.result[1].success =>
               /\ TheResult = Underlying.result[1]
               /\ TheResult.items = <<>>
               /\ TheResult.error_message # None

C13_Witness ==
    /\ TodayDone
    /\ Underlying.result[1].success
    /\ Len(Underlying.result[1].items) = 2
    /\ TheResult.success
    /\ TheResult.items = <<>>

\* ============================================ content_model, observed
Done(o) == ret # Idle /\ call.op = o
Given == call.result.items
Got == ret.result[1]

\* C14: get_today_items returns, in their original order, exactly the
\* items of the result published on the current date; an item with no
\* publish_date is never returned.
C14_TodayFilter ==
    Done("get_today_items") =>
        /\ ~ret.raised
        /\ \A k \in 1..Len(Got) :
               /\ Got[k].publish_date = Some(Today)
               /\ Got[k].publish_date # None
               /\ Got[k] = Given[Got[k].content_id]
               /\ \A j \in 1..(k - 1) : Got[j].content_id < Got[k].content_id
        /\ \A i \in 1..Len(Given) :
               Given[i].publish_date = Some(Today) => \E k \in 1..Len(Got) : Got[k] = Given[i]

C14_Witness ==
    /\ Done("get_today_items")
    /\ Len(Given) = 3
    /\ Given[1].publish_date = Some(Today)
    /\ Given[2].publish_date = None
    /\ Given[3].publish_date = Some(Today)
    /\ Got = <<Given[1], Given[3]>>

\* What the constructor was given
Data == call.data
TitleBlank == Data.title \in {"", " "}
UrlInvalid == Data.url \notin {"http://e", "https://e"}
AuthorNameBlank == Data.author_name \in {"", " "}
FieldsValid == ~TitleBlank /\ ~UrlInvalid /\ ~AuthorNameBlank

\* The field the validation error names, and whether that field is at fault
NamedFieldAtFault ==
    \/ ret.exc = "title must not be empty" /\ TitleBlank
    \/ ret.exc = "invalid content URL: " \o Data.url /\ UrlInvalid
    \/ ret.exc = "author name must not be empty" /\ AuthorNameBlank

Constructed ==
    /\ ~ret.raised
    /\ Got.category \in CategoryType
    /\ Data.category \in CategoryType => Got.category = Data.category
    /\ Data.category \in CategoryValues => CategoryValue(Got.category) = Data.category
    /\ Got.title = Data.title /\ Got.url = Data.url /\ Got.author_name = Data.author_name

\* C16, as stated: a blank title, a url that does not start with http://
\* or https://, or a blank author_name makes the construction fail with an
\* error naming that field; with any other field values it succeeds, a
\* display string for the category being normalized to the enum.
C16_ValidationAnyOther ==
    Done("ContentItem") =>
        /\ ~FieldsValid => (ret.raised /\ NamedFieldAtFault)
        /\ FieldsValid => Constructed

\* C16, amended: ... with any other field values whose category is a
\* member of the enum or one of its display strings it succeeds; a
\* category string that is no display string makes it fail.
C16_Validation ==
    Done("ContentItem") =>
        /\ ~FieldsValid => (ret.raised /\ NamedFieldAtFault)
        /\ (FieldsValid /\ Data.category \in CategoryType \cup CategoryValues) => Constructed
        /\ (FieldsValid /\ Data.category \notin CategoryType \cup CategoryValues) =>
               (ret.raised /\ ~NamedFieldAtFault)

C16_Witness ==
    /\ Done("ContentItem")
    /\ FieldsValid
    /\ Data.category = "Podcast"
    /\ ~ret.raised
    /\ Got.category = "PODCAST"

\* C17: from_dict(to_dict(x)) = x for every valid ContentItem x, and
\* deserializing the serialized form of a valid CollectionResult r gives a
\* result equal to r.
C17_RoundTrip ==
    /\ Done("item_round_trip") => (~ret.raised /\ Got = call.item)
    /\ Done("result_round_trip") => (~ret.raised /\ Got = call.result)

\* The half of the law that holds: ContentItem
ItemRoundTripLaw ==
    Done("item_round_trip") =>
        /\ ~ret.raised
        /\ Got = call.item
        /\ ItemToDict(call.item).category = CategoryValue(call.item.category)

\* ============================================= data_storage, observed
Rs == call.results
Successes == {i \in 1..Len(Rs) : Rs[i].success}
Failures == {i \in 1..Len(Rs) : ~Rs[i].success}
ItemPlaces == {<<i, k>> \in Successes \X (1..MaxEntries) : k <= Len(Rs[i].items)}
TodayPlaces == {p \in ItemPlaces : Rs[p[1]].items[p[2]].publish_date = Some(Today)}

\* C18: the snapshot save_results writes has total_authors = the number of
\* results, successful_authors + failed_authors = total_authors,
\* total_items = the items of the successful results, the results in the
\* order given, and each result's total_items = the length of its items.
C18_SnapshotAggregates ==
    Done("save_results") =>
        /\ ~ret.raised
        /\ Got.total_authors = Len(Rs)
        /\ Got.successful_authors = Cardinality(Successes)
        /\ Got.successful_authors + Got.failed_authors = Got.total_authors
        /\ Got.total_items = Cardinality(ItemPlaces)
        /\ Len(Got.results) = Len(Rs)
        /\ \A i \in 1..Len(Rs) :
               /\ Got.results[i].author_name = Rs[i].author_name
               /\ Got.results[i].category = CategoryValue(Rs[i].category)
               /\ Got.results[i].success = Rs[i].success
               /\ Got.results[i].error_message = Rs[i].error_message
               /\ Len(Got.results[i].items) = Len(Rs[i].items)
               /\ Got.results[i].total_items = Len(Rs[i].items)

C18_Witness ==
    /\ Done("save_results")
    /\ Len(Rs) = 2
    /\ Rs[1].success /\ Len(Rs[1].items) = 2
    /\ ~Rs[2].success
    /\ Got.total_items = 2
    /\ Got.failed_authors = 1

\* The k-th successful and the k-th failed result of the list
NthOf(S, k) == CHOOSE i \in S : Cardinality({j \in S : j <= i}) = k
Stats == Got.by_category
StatsSum(field) ==
    LET sum[i \in 0..Len(Stats)] ==
            IF i = 0 THEN 0 ELSE sum[i - 1] + Stats[i].value[field]
    IN  sum[Len(Stats)]

\* C19: create_summary_report gives total_authors = successful_authors +
\* failed_authors, lists the name of every successful author and every
\* failed author with its error, and its per-category authors, items and
\* today_items add up to successful_authors, total_items and today_items
\* of the summary.
C19_SummaryReport ==
    Done("create_summary_report") =>
        /\ ~ret.raised
        /\ Got.summary.total_authors = Len(Rs)
        /\ Got.summary.total_authors
               = Got.summary.successful_authors + Got.summary.failed_authors
        /\ Got.summary.successful_authors = Cardinality(Successes)
        /\ Got.summary.total_items = Cardinality(ItemPlaces)
        /\ Got.summary.today_items = Cardinality(TodayPlaces)
        /\ Len(Got.successful_authors) = Cardinality(Successes)
        /\ \A k \in 1..Len(Got.successful_authors) :
               Got.successful_authors[k] = Rs[NthOf(Successes, k)].author_name
        /\ Len(Got.failed_authors) = Cardinality(Failures)
        /\ \A k \in 1..Len(Got.failed_authors) :
               /\ Got.failed_authors[k].name = Rs[NthOf(Failures, k)].author_name
               /\ Got.failed_authors[k].error = Rs[NthOf(Failures, k)].error_message
        /\ StatsSum("authors") = Got.summary.successful_authors
        /\ StatsSum("items") = Got.summary.total_items
        /\ StatsSum("today_items") = Got.summary.today_items
        /\ \A i, j \in 1..Len(Stats) : Stats[i].key = Stats[j].key => i = j
        /\ {Stats[i].key : i \in 1..Len(Stats)}
               = {CategoryValue(Rs[i].category) : i \in Successes}

C19_Witness ==
    /\ Done("create_summary_report")
    /\ Cardinality(Successes) = 2
    /\ Len(Stats) = 2
    /\ Got.summary.total_items = 3
    /\ Got.summary.today_items = 1

\* ======================================== the storage directory, observed
Listing == listed.files
Matching == {f \in dir : listed.pattern = "*.json" \/ f.name.kind = "collection"}

\* C20: after any writes with distinct modification times,
\* list_saved_files returns every file matching the pattern exactly once,
\* strictly newest first, and get_latest_file returns the file written
\* last, None when there is no file.
C20_ListingOrder ==
    listed # Idle =>
        /\ {Listing[i] : i \in 1..Len(Listing)} = Matching
        /\ Len(Listing) = Cardinality(Matching)
        /\ \A i, j \in 1..Len(Listing) : i < j => Listing[i].mtime > Listing[j].mtime
        /\ written = <<>> <=> listed.latest = None
        /\ written # <<>> =>
               /\ TheValue(listed.latest).name = written[Len(written)]
               /\ TheValue(listed.latest).mtime = Len(written)

C20_Witness ==
    /\ listed # Idle
    /\ listed.pattern = "collection_*.json"
    /\ Len(written) = 3
    /\ Len(Listing) = 2
    /\ Cardinality(dir) = 3
    /\ TheValue(listed.latest).name.kind # "collection"

\* ============================================== file names, observed
Whitespace(c) == c = " "

\* C21: for every author name, _sanitize_filename returns at most 100
\* characters, none of them one of / \ : * ? " < > | (each is replaced
\* by _), with no whitespace at either end; "A/B:C" becomes "A_B_C".
C21_Sanitized ==
    Done("sanitize_filename") =>
        /\ Len(Got) <= NameLimit
        /\ \A i \in 1..Len(Got), j \in 1..Len(IllegalChars) : Got[i] # IllegalChars[j]
        /\ Got # <<>> => ~Whitespace(Got[1]) /\ ~Whitespace(Got[Len(Got)])
        /\ call.name = <<"A", "/", "B", ":", "C">> => Got = <<"A", "_", "B", "_", "C">>

\* The same without the claim on the ends of a name cut at the limit
SanitizedUpToTheCut ==
    Done("sanitize_filename") =>
        /\ Len(Got) <= NameLimit
        /\ \A i \in 1..Len(Got), j \in 1..Len(IllegalChars) : Got[i] # IllegalChars[j]
        /\ Got # <<>> => ~Whitespace(Got[1])
        /\ Got # <<>> /\ Len(StripChars(ReplaceEach(call.name, IllegalChars))) <= NameLimit
               => ~Whitespace(Got[Len(Got)])
        /\ call.name = <<"A", "/", "B", ":", "C">> => Got = <<"A", "_", "B", "_", "C">>

\* ============================================ the writes, observed
\* C22: every write of save_results, save_today_items_only,
\* save_summary_report and save_items_by_author goes to a file name that
\* did not exist before, so no file is written a second time.
C22_AppendOnly ==
    \A i, j \in 1..Len(written) : i < j => written[i] # written[j]

\* C23: a request that lists the snapshots while save_results is writing
\* one never gets a file whose document is only partly written: every
\* file listed holds a whole snapshot.
C23_AtomicVisibility ==
    listed # Idle => \A i \in 1..Len(Listing) : Listing[i].complete

\* ============================================ the read view, observed
\* The items of the view's results with success = true, in the order of
\* the results, and the items answered without their formatted_date
ViewItems ==
    Flatten([k \in 1..Len(View.results) |->
                IF View.results[k].success THEN View.results[k].items ELSE <<>>])
Answered ==
    [k \in 1..Len(response.items) |->
        [f \in DOMAIN response.items[k] \ {"formatted_date"} |-> response.items[k][f]]]
Occurrences(items, x) == Cardinality({k \in 1..Len(items) : items[k] = x})

\* C24: the read view holds exactly the items of the results with
\* success = true, newest publish_date first and the items without a
\* publish_date last; building it does not fail when items are undated.
C24_ReadViewOrder ==
    Merged =>
        /\ response.status = 200
        /\ Len(Answered) = Len(ViewItems)
        /\ \A k \in 1..Len(ViewItems) :
               Occurrences(Answered, ViewItems[k]) = Occurrences(ViewItems, ViewItems[k])
        /\ \A i, j \in 1..Len(Answered) :
               i < j => \/ Answered[j].publish_date = None
                        \/ /\ Answered[i].publish_date # None
                           /\ FromIsoFormat(TheValue(Answered[i].publish_date))
                                  >= FromIsoFormat(TheValue(Answered[j].publish_date))

\* The same for the views whose items are all dated, or that hold one item
ReadViewOrderDated ==
    Merged /\ ~SortRaises(ViewItems) =>
        /\ response.status = 200
        /\ Len(Answered) = Len(ViewItems)
        /\ \A k \in 1..Len(ViewItems) :
               Occurrences(Answered, ViewItems[k]) = Occurrences(ViewItems, ViewItems[k])
        /\ \A i, j \in 1..Len(Answered) :
               i < j => \/ Answered[j].publish_date = None
                        \/ /\ Answered[i].publish_date # None
                           /\ FromIsoFormat(TheValue(Answered[i].publish_date))
                                  >= FromIsoFormat(TheValue(Answered[j].publish_date))

\* The places of the answer held by items of the results the merge took
\* from a historical snapshot
FromHistory ==
    {n \in 1..Len(Answered) :
        \E k \in 1..Len(View.results) :
            /\ IsTagged(View.results[k])
            /\ \E j \in 1..Len(View.results[k].items) : View.results[k].items[j] = Answered[n]}

\* C25: every item of the read view that comes from a historical snapshot
\* carries from_history and the collected-at time of that snapshot.
C25_ProvenanceInView ==
    Merged /\ response.status = 200 =>
        \A n \in FromHistory :
            /\ "from_history" \in DOMAIN response.items[n]
            /\ "history_collected_at" \in DOMAIN response.items[n]

\* ============================================== the run, call by call
Hung(i) == FetchHangs(collectors[i].value, behaviours[i])

\* C26: a run that has started ends with a result for every author; the
\* author whose fetch hangs gets a failed result with a timeout message,
\* and the authors after it are collected.
C26_BoundedFetch ==
    (pc = "collecting") ~>
        (/\ pc = "collected"
         /\ Len(results) = Len(collectors)
         /\ \A i \in 1..Len(collectors) :
                Hung(i) => ~results[i].success /\ results[i].error_message # None)

\* A run in which no fetch hangs ends with a result for every author
EndsUnlessHung ==
    (pc = "collecting" /\ \A i \in 1..Len(collectors) : ~Hung(i)) ~>
        (pc = "collected" /\ Len(results) = Len(collectors))

\* The loop taken turn by turn returns what collect_all returns
TurnsAgree ==
    pc = "collected" /\ (\A i \in 1..Len(collectors) : ~Hung(i)) =>
        /\ results = collect_all(collectors, behaviours, DefaultMaxItems, 1).results
        /\ invoked = collect_all(collectors, behaviours, DefaultMaxItems, 1).invoked

\* ============================================== the scan, observed
\* The failed baseline authors that no readable snapshot newer than file i
\* resolves: the ones the scan is still looking for when it comes to file i
Pending(i) == {a \in FailedNames(Baseline) : \A s \in Sources(a) : s >= i}

\* C27: an older snapshot is loaded only while a failed baseline author is
\* unresolved; with no failed author in the baseline none is loaded.
C27_EarlyTermination ==
    Merged =>
        /\ loaded[1] = 1
        /\ \A n \in 2..Len(loaded) : Pending(loaded[n]) # {}
        /\ FailedNames(Baseline) = {} => loaded = <<1>>

C27_Witness ==
    /\ Merged
    /\ Len(files) = 3
    /\ 3 \notin unreadable
    /\ FailedNames(Baseline) # {}
    /\ Pending(3) = {}
    /\ loaded = <<1, 2>>

\* ====================================== the authors of the view, observed
NamesOf(data) == {data.results[k].author_name : k \in 1..Len(data.results)}
DistinctNames(data) == Cardinality(NamesOf(data)) = Len(data.results)

\* C28: for a baseline with distinct author names the view holds one
\* result for each author of the baseline and none for any other author,
\* so as many results as the baseline's total_authors.
C28_AuthorSetPreserved ==
    Merged /\ DistinctNames(Baseline) =>
        /\ NamesOf(View) = NamesOf(Baseline)
        /\ \A a \in NamesOf(Baseline) : Len(EntriesOf(View, a)) = 1
        /\ Len(View.results) = Baseline.total_authors
        /\ View.total_authors = Baseline.total_authors

C28_Witness ==
    /\ Merged /\ DistinctNames(Baseline)
    /\ Backfillable # {}
    /\ \E n \in 2..Len(loaded) :
           /\ loaded[n] \notin unreadable
           /\ \E a \in NamesOf(files[loaded[n]].doc) \ NamesOf(Baseline) :
                  SuccessesOf(files[loaded[n]].doc, a) # <<>>
    /\ Len(View.results) = 1

\* ===================================== the unreadable baseline, observed
\* C29: when the newest snapshot does not load, load_latest_data returns
\* None and loads no older snapshot, readable or not.
C29_UnreadableBaseline ==
    (op = "api_items" /\ files # <<>> /\ 1 \in unreadable) =>
        /\ view = None
        /\ loaded = <<1>>
        /\ response = [status |-> 200, items |-> <<>>, total |-> 0]

C29_Witness ==
    /\ op = "api_items"
    /\ Len(files) = 3
    /\ unreadable = {1}
    /\ files[2].doc.total_items > 0
    /\ view = None

\* ======================================== the order of the view, observed
\* The baseline's results that the merge leaves alone, in baseline order
Kept == SelectSeq(Baseline.results, LAMBDA r : r.author_name \notin Backfillable)

\* Where the scan meets the success it takes for author a: the file, and
\* the place in the file's results
PlaceIn(i, a) ==
    CHOOSE k \in 1..Len(files[i].doc.results) :
        /\ files[i].doc.results[k].author_name = a
        /\ files[i].doc.results[k].success
        /\ \A j \in 1..(k - 1) :
               ~(files[i].doc.results[j].author_name = a /\ files[i].doc.results[j].success)
ResolvedBefore(a, b) ==
    \/ MostRecent(a) < MostRecent(b)
    \/ MostRecent(a) = MostRecent(b) /\ PlaceIn(MostRecent(a), a) < PlaceIn(MostRecent(b), b)

\* C30: the results the merge leaves alone (successful, or still failed)
\* come first in the view, in their baseline order; the backfilled results
\* follow them, in the order in which their authors were resolved.
C30_ResultOrder ==
    Merged =>
        /\ Len(View.results) = Len(Kept) + Cardinality(Backfillable)
        /\ SubSeq(View.results, 1, Len(Kept)) = Kept
        /\ \A k \in (Len(Kept) + 1)..Len(View.results) :
               /\ IsTagged(View.results[k])
               /\ View.results[k].author_name \in Backfillable
        /\ \A k, l \in (Len(Kept) + 1)..Len(View.results) :
               k < l => ResolvedBefore(View.results[k].author_name,
                                       View.results[l].author_name)

C30_Witness ==
    /\ Merged
    /\ Len(Baseline.results) = 2
    /\ ~Baseline.results[1].success
    /\ Baseline.results[2].success
    /\ View.results[1] = Baseline.results[2]
    /\ IsTagged(View.results[2])
    /\ View.results[2].author_name = Baseline.results[1].author_name

====
